---- MODULE Spec2Model ----
(***************************************************************************)
(* kube-dns-sync: the collector (getClusterExternalIPs), the reconciler    *)
(* (syncHostnameIPs), watchNodes, the startup and the scheduling goroutine *)
(* of main, modelled from the multi-target main program; the reconciler of *)
(* the single-target program is modelled beside it.                        *)
(*                                                                         *)
(* The DNS provider and the cluster API are external collaborators.  The   *)
(* provider keeps, per zone, the list of records GetRecords returns;       *)
(* DeleteRecords removes every record equal to one of its inputs and       *)
(* SetRecords creates one record per input entry.  Every call to a         *)
(* collaborator either succeeds or fails without effect.                   *)
(***************************************************************************)
EXTENDS Integers, Sequences, FiniteSets, TLC

VARIABLES
    nodes,            \* cluster state: the nodes the API server holds
    zones,            \* provider state: zone -> sequence of records
    dnsConfig,        \* dnsConfig.DNS, the configured targets
    cfgIdx,           \* position of the `range dnsConfig.DNS` loop
    pc,               \* position of the scheduling goroutine
    addresses,        \* watchNodes/syncHostnameIPs: addresses
    records,          \* syncHostnameIPs: records (the fetched snapshot)
    recordsToDelete,  \* syncHostnameIPs: recordsToDelete
    recordsToCreate,  \* syncHostnameIPs: recordsToCreate
    err,              \* error returned by watchNodes (<<>> is nil)
    calls,            \* collaborator calls made by the current watchNodes
    entryZones,       \* provider state when the current watchNodes began
    results,          \* errors returned by the watchNodes calls of this tick
    prevResults,      \* errors returned by the watchNodes calls of the last tick
    tick,             \* number of the current pass over the targets
    ctxDone,          \* cancel() has been called
    finishChan,       \* number of close(finishChan) executed
    termChan,         \* signals buffered in termChan
    mainPc,           \* position of main
    lateStarts,       \* watchNodes calls started after cancel()
    sigInWait,        \* the signal was delivered during the wait in progress
    lastCalls,        \* collaborator calls made by the call a retry follows
    koanf,            \* k, the loaded configuration, and the startup outcomes
    provider          \* main: provider, the DNS provider client (or nil)

vars == <<nodes, zones, dnsConfig, cfgIdx, pc, addresses, records,
          recordsToDelete, recordsToCreate, err, calls, entryZones, results,
          prevResults, tick, ctxDone, finishChan, termChan, mainPc, lateStarts,
          sigInWait, lastCalls, koanf, provider>>

locals == <<addresses, records, recordsToDelete, recordsToCreate>>
startVars == <<koanf, provider>>
mainVars == <<ctxDone, termChan, mainPc, koanf, provider>>
histVars == <<prevResults, lateStarts, sigInWait, lastCalls>>

(***************************************************************************)
(* Bounds                                                                  *)
(***************************************************************************)
MaxRecords == 2       \* records initially held by a zone
MaxDesired == 2       \* length of a desired address sequence
MaxNodes == 2         \* nodes returned by a listing
MaxNodeAddrs == 3     \* address entries of the listed nodes, all together
MaxTicks == 2         \* passes of the scheduling loop
MaxInvocations == 2   \* consecutive reconciles of one target

(***************************************************************************)
(* Helpers on sequences                                                    *)
(***************************************************************************)
Range(s) == {s[i] : i \in 1..Len(s)}

\* slices.Contains
Contains(s, e) == \E i \in 1..Len(s) : s[i] = e

RECURSIVE Flatten(_)
Flatten(ss) == IF ss = <<>> THEN <<>> ELSE Head(ss) \o Flatten(Tail(ss))

(***************************************************************************)
(* Addresses                                                               *)
(***************************************************************************)
\* the zero netip.Addr
ZeroAddr == "invalid IP"

\* netip.Addr values, written in their canonical text form
Addrs == {"10.0.0.1", "10.0.0.2", "10.0.0.3", "::1"}

\* netip.ParseAddr: a canonical literal parses to itself, an expanded IPv6
\* literal to its canonical address, anything else is an error.
ParseAddr(s) ==
    CASE s \in Addrs -> [ok |-> TRUE, addr |-> s]
      [] s = "0:0:0:0:0:0:0:1" -> [ok |-> TRUE, addr |-> "::1"]
      [] OTHER -> [ok |-> FALSE, addr |-> ZeroAddr]

(***************************************************************************)
(* Provider records                                                        *)
(***************************************************************************)
Rec(n, t, d, l) == [name |-> n, type |-> t, data |-> d, ttl |-> l]

\* the zero libdns.Address
ZeroAddress == [Name |-> "", IP |-> ZeroAddr, TTL |-> 0]

ErrNotAddressRecord == "the type must be an A/AAAA record"
ErrParse == "failed to parse record"
NoErr == "nil"

\* parseAddress: record.RR().Parse() fails on an A/AAAA record whose data is
\* no IP literal; a record of another type parses to another struct.
parseAddress(record) ==
    IF record.type \in {"A", "AAAA"}
    THEN LET p == ParseAddr(record.data) IN
         IF p.ok
         THEN [address |-> [Name |-> record.name, IP |-> p.addr, TTL |-> record.ttl],
               err |-> NoErr]
         ELSE [address |-> ZeroAddress, err |-> ErrParse]
    ELSE [address |-> ZeroAddress, err |-> ErrNotAddressRecord]

\* netip.Addr.Is4
Is4(address) == address \in {"10.0.0.1", "10.0.0.2", "10.0.0.3"}

\* the libdns.Address literal of the create pass, as the record it denotes
NewAddressRecord(config, address) ==
    Rec(config.Hostname, IF Is4(address) THEN "A" ELSE "AAAA", address, config.TTL)

\* a delete pass that treats every parse error as 'not an address record'
DeletePassNoSkip(recs, config, addrs) ==
    LET Stale(record) ==
            LET p == parseAddress(record) IN
            /\ p.address.Name = config.Hostname
            /\ ~Contains(addrs, p.address.IP)
    IN SelectSeq(recs, Stale)

\* the delete pass of syncHostnameIPs
DeletePass(recs, config, addrs) ==
    LET Stale(record) ==
            LET p == parseAddress(record) IN
            /\ ~(p.err # NoErr /\ p.err # ErrNotAddressRecord)
            /\ p.address.Name = config.Hostname
            /\ ~Contains(addrs, p.address.IP)
    IN SelectSeq(recs, Stale)

\* a create-pass test that also compares the TTL, so that a record whose TTL
\* differs from the target's counts as missing
ExistsSameTTL(recs, config, address) ==
    \E i \in 1..Len(recs) :
        LET p == parseAddress(recs[i]) IN
        /\ ~(p.err # NoErr /\ p.err # ErrNotAddressRecord)
        /\ p.address.Name = config.Hostname
        /\ p.address.IP = address
        /\ p.address.TTL = config.TTL

\* the slices.ContainsFunc of the create pass
Exists(recs, config, address) ==
    \E i \in 1..Len(recs) :
        LET p == parseAddress(recs[i]) IN
        /\ ~(p.err # NoErr /\ p.err # ErrNotAddressRecord)
        /\ p.address.Name = config.Hostname
        /\ p.address.IP = address

\* a create pass that proposes every desired address, existing or not
CreatePassNoExistsCheck(recs, config, addrs) ==
    [i \in 1..Len(addrs) |-> NewAddressRecord(config, addrs[i])]

\* the create pass of syncHostnameIPs
CreatePass(recs, config, addrs) ==
    LET Missing(address) == ~Exists(recs, config, address)
        missing == SelectSeq(addrs, Missing)
    IN [i \in 1..Len(missing) |-> NewAddressRecord(config, missing[i])]

\* the provider's DeleteRecords
ProviderDelete(zrecs, del) ==
    LET Kept(r) == r \notin Range(del) IN SelectSeq(zrecs, Kept)

\* the provider's SetRecords
ProviderSet(zrecs, new) == zrecs \o new

(***************************************************************************)
(* Collector                                                               *)
(***************************************************************************)
Cond(t, s) == [Type |-> t, Status |-> s]
NodeAddr(t, a) == [Type |-> t, Address |-> a]
Node(l, c, a) == [labels |-> l, conditions |-> c, addrs |-> a]

\* a readiness test that takes any condition of status True
isNodeReadyAnyCondition(node) ==
    \E i \in 1..Len(node.conditions) : node.conditions[i].Status = "True"

isNodeReady(node) ==
    \E i \in 1..Len(node.conditions) :
        /\ node.conditions[i].Type = "Ready"
        /\ node.conditions[i].Status = "True"

\* an inner loop that stops at the first external IP that fails to parse
NodeExternalIPsStopAtBad(node) ==
    LET External(a) == a.Type = "ExternalIP"
        external == SelectSeq(node.addrs, External)
        bad == {i \in 1..Len(external) : ~ParseAddr(external[i].Address).ok}
        n == IF bad = {} THEN Len(external)
             ELSE (CHOOSE i \in bad : \A j \in bad : i <= j) - 1
    IN [i \in 1..n |-> ParseAddr(external[i].Address).addr]

\* the inner loop of getClusterExternalIPs over node.Status.Addresses
NodeExternalIPs(node) ==
    LET Usable(a) == a.Type = "ExternalIP" /\ ParseAddr(a.Address).ok
        usable == SelectSeq(node.addrs, Usable)
    IN [i \in 1..Len(usable) |-> ParseAddr(usable[i].Address).addr]

\* the outer loop of getClusterExternalIPs over nodes.Items
ExternalIPs(items) ==
    Flatten([i \in 1..Len(items) |->
                IF isNodeReady(items[i]) THEN NodeExternalIPs(items[i]) ELSE <<>>])

\* Nodes().List: the nodes carrying every label of the selector
ListNodes(selector) ==
    LET Match(node) == selector \subseteq node.labels IN SelectSeq(nodes, Match)

(***************************************************************************)
(* Errors: a wrapped error is the sequence of its messages, outermost      *)
(* first; nil is the empty sequence.                                       *)
(***************************************************************************)
\* a call to a collaborator and whether it succeeded
Call(o, k) == [op |-> o, ok |-> k]

Nil == <<>>
Wrap(msg, e) == <<msg>> \o e

Config == dnsConfig[cfgIdx]

\* the provider of a provider name no case of main's switch matches
NilProvider == "nil"

\* the goroutine and the signal handler exist from signal.Notify and `go`
\* until main returns or the process dies
Alive == mainPc \in {"term", "cancel", "finish"}

(***************************************************************************)
(* The scheduling goroutine                                                *)
(***************************************************************************)
\* `for _, cfg := range dnsConfig.DNS`: the next target enters watchNodes
NextTarget ==
    /\ Alive /\ pc = "range"
    /\ cfgIdx <= Len(dnsConfig)
    /\ pc' = "list"
    /\ addresses' = <<>> /\ records' = <<>>
    /\ recordsToDelete' = <<>> /\ recordsToCreate' = <<>>
    /\ err' = Nil /\ calls' = <<>> /\ entryZones' = zones
    /\ lateStarts' = IF ctxDone THEN lateStarts + 1 ELSE lateStarts
    /\ UNCHANGED <<nodes, zones, dnsConfig, cfgIdx, results, tick, finishChan,
                   prevResults, sigInWait, lastCalls>>
    /\ UNCHANGED mainVars

\* the range loop is exhausted: on to the select between ticks
EndOfTargets ==
    /\ Alive /\ pc = "range"
    /\ cfgIdx > Len(dnsConfig)
    /\ pc' = "wait"
    /\ UNCHANGED <<nodes, zones, dnsConfig, cfgIdx, err, calls, entryZones,
                   results, tick, finishChan>>
    /\ UNCHANGED locals /\ UNCHANGED mainVars /\ UNCHANGED histVars

\* a watchNodes that returns nil without reconciling when no address is found
ListNodesOKSkipEmpty ==
    /\ Alive /\ pc = "list"
    /\ addresses' = ExternalIPs(ListNodes(Config.Labels))
    /\ calls' = Append(calls, Call("List", TRUE))
    /\ pc' = IF addresses' = <<>> THEN "select" ELSE "get"
    /\ UNCHANGED <<nodes, zones, dnsConfig, cfgIdx, records, recordsToDelete,
                   recordsToCreate, err, entryZones, results, tick, finishChan>>
    /\ UNCHANGED mainVars /\ UNCHANGED histVars

\* getClusterExternalIPs, node listing succeeds
ListNodesOK ==
    /\ Alive /\ pc = "list"
    /\ addresses' = ExternalIPs(ListNodes(Config.Labels))
    /\ calls' = Append(calls, Call("List", TRUE))
    /\ pc' = "get"
    /\ UNCHANGED <<nodes, zones, dnsConfig, cfgIdx, records, recordsToDelete,
                   recordsToCreate, err, entryZones, results, tick, finishChan>>
    /\ UNCHANGED mainVars /\ UNCHANGED histVars

\* a watchNodes that goes on to the reconciler after a failed listing
ListNodesFailIgnored ==
    /\ Alive /\ pc = "list"
    /\ calls' = Append(calls, Call("List", FALSE))
    /\ pc' = "get"
    /\ UNCHANGED <<nodes, zones, dnsConfig, cfgIdx, err, entryZones, results, tick,
                   finishChan>>
    /\ UNCHANGED locals /\ UNCHANGED mainVars /\ UNCHANGED histVars

\* getClusterExternalIPs, node listing fails: watchNodes returns
ListNodesFail ==
    /\ Alive /\ pc = "list"
    /\ calls' = Append(calls, Call("List", FALSE))
    /\ err' = Wrap("failed to get cluster external IPs",
                   Wrap("failed to list nodes", <<"List">>))
    /\ pc' = "select"
    /\ UNCHANGED <<nodes, zones, dnsConfig, cfgIdx, entryZones, results, tick,
                   finishChan>>
    /\ UNCHANGED locals /\ UNCHANGED mainVars /\ UNCHANGED histVars

\* syncHostnameIPs: GetRecords succeeds, then the delete pass
GetRecordsOK ==
    /\ Alive /\ pc = "get"
    /\ provider # NilProvider
    /\ records' = zones[Config.Zone]
    /\ recordsToDelete' = DeletePass(records', Config, addresses)
    /\ calls' = Append(calls, Call("GetRecords", TRUE))
    /\ pc' = IF Len(recordsToDelete') > 0 THEN "delete" ELSE "create"
    /\ UNCHANGED <<nodes, zones, dnsConfig, cfgIdx, addresses, recordsToCreate,
                   err, entryZones, results, tick, finishChan>>
    /\ UNCHANGED mainVars /\ UNCHANGED histVars

\* syncHostnameIPs: GetRecords fails, the error is returned as it is
GetRecordsFail ==
    /\ Alive /\ pc = "get"
    /\ provider # NilProvider
    /\ calls' = Append(calls, Call("GetRecords", FALSE))
    /\ err' = Wrap("failed to sync hostname IPs", <<"GetRecords">>)
    /\ pc' = "select"
    /\ UNCHANGED <<nodes, zones, dnsConfig, cfgIdx, entryZones, results, tick,
                   finishChan>>
    /\ UNCHANGED locals /\ UNCHANGED mainVars /\ UNCHANGED histVars

\* a syncHostnameIPs that fetches the records again after the delete
DeleteRecordsOKRefetch ==
    /\ Alive /\ pc = "delete"
    /\ zones' = [zones EXCEPT ![Config.Zone] = ProviderDelete(@, recordsToDelete)]
    /\ records' = zones'[Config.Zone]
    /\ calls' = calls \o <<Call("DeleteRecords", TRUE), Call("GetRecords", TRUE)>>
    /\ pc' = "create"
    /\ UNCHANGED <<nodes, dnsConfig, cfgIdx, err, entryZones, results, tick,
                   finishChan, addresses, recordsToDelete, recordsToCreate>>
    /\ UNCHANGED mainVars /\ UNCHANGED histVars

\* syncHostnameIPs: the batched DeleteRecords succeeds
DeleteRecordsOK ==
    /\ Alive /\ pc = "delete"
    /\ zones' = [zones EXCEPT ![Config.Zone] = ProviderDelete(@, recordsToDelete)]
    /\ calls' = Append(calls, Call("DeleteRecords", TRUE))
    /\ pc' = "create"
    /\ UNCHANGED <<nodes, dnsConfig, cfgIdx, err, entryZones, results, tick,
                   finishChan>>
    /\ UNCHANGED locals /\ UNCHANGED mainVars /\ UNCHANGED histVars

\* a syncHostnameIPs that goes on to the create pass after a failed delete
DeleteRecordsFailIgnored ==
    /\ Alive /\ pc = "delete"
    /\ calls' = Append(calls, Call("DeleteRecords", FALSE))
    /\ pc' = "create"
    /\ UNCHANGED <<nodes, zones, dnsConfig, cfgIdx, err, entryZones, results, tick,
                   finishChan>>
    /\ UNCHANGED locals /\ UNCHANGED mainVars /\ UNCHANGED histVars

\* syncHostnameIPs: DeleteRecords fails
DeleteRecordsFail ==
    /\ Alive /\ pc = "delete"
    /\ calls' = Append(calls, Call("DeleteRecords", FALSE))
    /\ err' = Wrap("failed to sync hostname IPs",
                   Wrap("failed to delete records", <<"DeleteRecords">>))
    /\ pc' = "select"
    /\ UNCHANGED <<nodes, zones, dnsConfig, cfgIdx, entryZones, results, tick,
                   finishChan>>
    /\ UNCHANGED locals /\ UNCHANGED mainVars /\ UNCHANGED histVars

\* syncHostnameIPs: the create pass, over the snapshot fetched at the start
CreateCandidates ==
    /\ Alive /\ pc = "create"
    /\ recordsToCreate' = CreatePass(records, Config, addresses)
    /\ pc' = IF Len(recordsToCreate') > 0 THEN "set" ELSE "select"
    /\ UNCHANGED <<nodes, zones, dnsConfig, cfgIdx, addresses, records,
                   recordsToDelete, err, calls, entryZones, results, tick,
                   finishChan>>
    /\ UNCHANGED mainVars /\ UNCHANGED histVars

\* syncHostnameIPs: the batched SetRecords succeeds, sync complete
SetRecordsOK ==
    /\ Alive /\ pc = "set"
    /\ zones' = [zones EXCEPT ![Config.Zone] = ProviderSet(@, recordsToCreate)]
    /\ calls' = Append(calls, Call("SetRecords", TRUE))
    /\ pc' = "select"
    /\ UNCHANGED <<nodes, dnsConfig, cfgIdx, err, entryZones, results, tick,
                   finishChan>>
    /\ UNCHANGED locals /\ UNCHANGED mainVars /\ UNCHANGED histVars

\* syncHostnameIPs: SetRecords fails
SetRecordsFail ==
    /\ Alive /\ pc = "set"
    /\ calls' = Append(calls, Call("SetRecords", FALSE))
    /\ err' = Wrap("failed to sync hostname IPs",
                   Wrap("failed to create records", <<"SetRecords">>))
    /\ pc' = "select"
    /\ UNCHANGED <<nodes, zones, dnsConfig, cfgIdx, entryZones, results, tick,
                   finishChan>>
    /\ UNCHANGED locals /\ UNCHANGED mainVars /\ UNCHANGED histVars

\* the select after each target, case <-ctx.Done(): close(finishChan), return
TargetSelectDone ==
    /\ Alive /\ pc = "select"
    /\ ctxDone
    /\ finishChan' = finishChan + 1
    /\ results' = Append(results, err)
    /\ pc' = "exited"
    /\ UNCHANGED <<nodes, zones, dnsConfig, cfgIdx, err, calls, entryZones, tick>>
    /\ UNCHANGED locals /\ UNCHANGED mainVars /\ UNCHANGED histVars

\* a loop that returns when watchNodes returned an error
TargetSelectDefaultReturnOnError ==
    /\ Alive /\ pc = "select"
    /\ ~ctxDone
    /\ results' = Append(results, err)
    /\ cfgIdx' = IF err = Nil THEN cfgIdx + 1 ELSE cfgIdx
    /\ pc' = IF err = Nil THEN "range" ELSE "exited"
    /\ UNCHANGED <<nodes, zones, dnsConfig, err, calls, entryZones, tick,
                   finishChan>>
    /\ UNCHANGED locals /\ UNCHANGED mainVars /\ UNCHANGED histVars

\* a loop whose select after each target does not look at ctx.Done()
TargetSelectDefaultUnchecked ==
    /\ Alive /\ pc = "select"
    /\ results' = Append(results, err)
    /\ cfgIdx' = cfgIdx + 1
    /\ pc' = "range"
    /\ UNCHANGED <<nodes, zones, dnsConfig, err, calls, entryZones, tick,
                   finishChan>>
    /\ UNCHANGED locals /\ UNCHANGED mainVars /\ UNCHANGED histVars

\* the select after each target, default: on to the next target
TargetSelectDefault ==
    /\ Alive /\ pc = "select"
    /\ ~ctxDone
    /\ results' = Append(results, err)
    /\ cfgIdx' = cfgIdx + 1
    /\ pc' = "range"
    /\ UNCHANGED <<nodes, zones, dnsConfig, err, calls, entryZones, tick,
                   finishChan>>
    /\ UNCHANGED locals /\ UNCHANGED mainVars /\ UNCHANGED histVars

\* an inter-tick select that returns on cancellation without closing finishChan
WaitDoneNoClose ==
    /\ Alive /\ pc = "wait"
    /\ ctxDone
    /\ sigInWait' = FALSE
    /\ pc' = "exited"
    /\ UNCHANGED <<nodes, zones, dnsConfig, cfgIdx, err, calls, entryZones,
                   results, tick, finishChan, prevResults, lateStarts,
                   lastCalls>>
    /\ UNCHANGED locals /\ UNCHANGED mainVars

\* the select between ticks, case <-ctx.Done(): close(finishChan), return
WaitDone ==
    /\ Alive /\ pc = "wait"
    /\ ctxDone
    /\ finishChan' = finishChan + 1
    /\ sigInWait' = FALSE
    /\ pc' = "exited"
    /\ UNCHANGED <<nodes, zones, dnsConfig, cfgIdx, err, calls, entryZones,
                   results, tick, prevResults, lateStarts, lastCalls>>
    /\ UNCHANGED locals /\ UNCHANGED mainVars

\* the select between ticks, case <-time.After(interval): the next tick.
\* The timer may fire at the instant of the cancellation, and select then
\* picks either case.
WaitTimer ==
    /\ Alive /\ pc = "wait"
    /\ tick < MaxTicks
    /\ tick' = tick + 1
    /\ cfgIdx' = 1
    /\ results' = <<>> /\ prevResults' = results
    /\ sigInWait' = FALSE
    /\ pc' = "range"
    /\ UNCHANGED <<nodes, zones, dnsConfig, err, calls, entryZones, finishChan,
                   lateStarts, lastCalls>>
    /\ UNCHANGED locals /\ UNCHANGED mainVars

(***************************************************************************)
(* main and the interrupt signal                                           *)
(***************************************************************************)
goVars == <<nodes, zones, dnsConfig, cfgIdx, pc, addresses, records,
            recordsToDelete, recordsToCreate, err, calls, entryZones, results,
            prevResults, tick, finishChan, lateStarts, lastCalls>>

\* signal.Notify(termChan, os.Interrupt): a signal is buffered, one at most
Interrupt ==
    /\ Alive /\ termChan = 0
    /\ termChan' = 1
    /\ sigInWait' = (pc = "wait")
    /\ UNCHANGED <<ctxDone, mainPc>> /\ UNCHANGED goVars /\ UNCHANGED startVars

\* <-termChan
MainRecvTerm ==
    /\ mainPc = "term" /\ termChan > 0
    /\ termChan' = termChan - 1
    /\ mainPc' = "cancel"
    /\ UNCHANGED <<ctxDone, sigInWait>> /\ UNCHANGED goVars
    /\ UNCHANGED startVars

\* cancel()
MainCancel ==
    /\ mainPc = "cancel"
    /\ ctxDone' = TRUE
    /\ mainPc' = "finish"
    /\ UNCHANGED <<termChan, sigInWait>> /\ UNCHANGED goVars
    /\ UNCHANGED startVars

\* a main that returns without waiting for finishChan
MainRecvFinishNoWait ==
    /\ mainPc = "finish"
    /\ mainPc' = "returned"
    /\ UNCHANGED <<ctxDone, termChan, sigInWait>> /\ UNCHANGED goVars
    /\ UNCHANGED startVars

\* <-finishChan: a receive from a closed channel returns; main returns
MainRecvFinish ==
    /\ mainPc = "finish" /\ finishChan > 0
    /\ mainPc' = "returned"
    /\ UNCHANGED <<ctxDone, termChan, sigInWait>> /\ UNCHANGED goVars
    /\ UNCHANGED startVars

(***************************************************************************)
(* Startup: main from flag parsing to the start of the goroutine           *)
(***************************************************************************)
\* what main reads at startup: load is the outcome of flag parsing and of the
\* loading of the file, the environment and the flags; kube the outcome of
\* the construction of the cluster client
Conf(load, version, format, dns, name, kube) ==
    [loadOK |-> load, version |-> version, logFormat |-> format, dns |-> dns,
     provider |-> name, kubeOK |-> kube]

\* the configuration of a process that runs the given targets
StartedConf(dns) == Conf(TRUE, FALSE, "json", dns, "cloudflare", TRUE)

\* `switch dnsProvider`: three cases and no default
NewProvider(name) ==
    IF name \in {"cloudflare", "digitalocean", "linode"} THEN name ELSE NilProvider

\* the checks of main in their order: where main is after startup
StartupOutcome(conf) ==
    IF ~conf.loadOK THEN "exit1"
    ELSE IF conf.version THEN "exit0"
    ELSE IF conf.logFormat \notin {"json", "logfmt", ""} THEN "exit1"
    ELSE IF Len(conf.dns) = 0 THEN "exit1"
    ELSE IF ~conf.kubeOK THEN "exit1"
    ELSE "term"

\* main up to `go func()`: os.Exit, or the goroutine is started
Startup ==
    /\ mainPc = "start"
    /\ mainPc' = StartupOutcome(koanf)
    /\ dnsConfig' = IF koanf.loadOK THEN koanf.dns ELSE dnsConfig
    /\ provider' = IF StartupOutcome([koanf EXCEPT !.kubeOK = TRUE]) = "term"
                   THEN NewProvider(koanf.provider) ELSE provider
    /\ pc' = IF mainPc' = "term" THEN "range" ELSE pc
    /\ UNCHANGED <<nodes, zones, cfgIdx, err, calls, entryZones, results, tick,
                   finishChan, ctxDone, termChan, koanf>>
    /\ UNCHANGED locals /\ UNCHANGED histVars

\* syncHostnameIPs with a nil provider: the call of GetRecords on the nil
\* interface panics and the process dies
GetRecordsNilProvider ==
    /\ Alive /\ pc = "get"
    /\ provider = NilProvider
    /\ pc' = "panicked" /\ mainPc' = "panic"
    /\ UNCHANGED <<nodes, zones, dnsConfig, cfgIdx, err, calls, entryZones,
                   results, tick, finishChan, ctxDone, termChan>>
    /\ UNCHANGED locals /\ UNCHANGED histVars /\ UNCHANGED startVars

(***************************************************************************)
(* The program: main and the scheduling goroutine over the configured      *)
(* targets                                                                 *)
(***************************************************************************)
Zones == {"z1", "z2"}

TargetA == [Hostname |-> "h", Zone |-> "z1", Labels |-> {"role=a"}, TTL |-> 60]
TargetB == [Hostname |-> "g", Zone |-> "z2", Labels |-> {"role=b"}, TTL |-> 0]
TargetC == [Hostname |-> "h", Zone |-> "z1", Labels |-> {"role=b"}, TTL |-> 60]

Ready == <<Cond("MemoryPressure", "False"), Cond("Ready", "True")>>
NotReady == <<Cond("MemoryPressure", "False"), Cond("Ready", "False")>>

NodeA == Node({"role=a"}, Ready, <<NodeAddr("InternalIP", "10.0.0.3"),
                                   NodeAddr("ExternalIP", "10.0.0.1")>>)
NodeB == Node({"role=b"}, Ready, <<NodeAddr("ExternalIP", "10.0.0.2")>>)
NodeC == Node({"role=a"}, NotReady, <<NodeAddr("ExternalIP", "10.0.0.3")>>)

Clusters == {<<NodeC, NodeA, NodeB>>, <<NodeC, NodeB>>}
Configs == {<<TargetA>>, <<TargetA, TargetB>>, <<TargetA, TargetC>>}
InitialZ1 == {<<Rec("h", "A", "10.0.0.3", 60)>>,
              <<Rec("h", "A", "10.0.0.1", 300), Rec("h", "TXT", "v=spf1", 60)>>}

Init ==
    /\ nodes \in Clusters
    /\ dnsConfig \in Configs
    /\ \E z1 \in InitialZ1 : zones = [z \in Zones |-> IF z = "z1" THEN z1 ELSE <<>>]
    /\ cfgIdx = 1 /\ pc = "range" /\ tick = 1
    /\ addresses = <<>> /\ records = <<>>
    /\ recordsToDelete = <<>> /\ recordsToCreate = <<>>
    /\ err = Nil /\ calls = <<>> /\ entryZones = zones
    /\ results = <<>> /\ prevResults = <<>>
    /\ ctxDone = FALSE /\ finishChan = 0 /\ termChan = 0 /\ mainPc = "term"
    /\ lateStarts = 0 /\ sigInWait = FALSE /\ lastCalls = <<>>
    /\ koanf = StartedConf(dnsConfig) /\ provider = NewProvider(koanf.provider)

Next ==
    \/ NextTarget \/ EndOfTargets
    \/ ListNodesOK \/ ListNodesFail
    \/ GetRecordsOK \/ GetRecordsFail
    \/ DeleteRecordsOK \/ DeleteRecordsFail
    \/ CreateCandidates
    \/ SetRecordsOK \/ SetRecordsFail
    \/ TargetSelectDone \/ TargetSelectDefault
    \/ WaitDone \/ WaitTimer
    \/ Interrupt \/ MainRecvTerm \/ MainCancel \/ MainRecvFinish

\* the steps of the scheduling goroutine
Goroutine ==
    \/ NextTarget \/ EndOfTargets
    \/ ListNodesOK \/ ListNodesFail
    \/ GetRecordsOK \/ GetRecordsFail
    \/ DeleteRecordsOK \/ DeleteRecordsFail
    \/ CreateCandidates
    \/ SetRecordsOK \/ SetRecordsFail
    \/ TargetSelectDone \/ TargetSelectDefault
    \/ WaitDone \/ WaitTimer

Spec == Init /\ [][Next]_vars

\* the goroutine keeps running: every collaborator call returns and the
\* timer of the inter-tick wait fires
FairSpec == Spec /\ WF_vars(Goroutine)

\* the steps of main after the goroutine is started
Main == MainRecvTerm \/ MainCancel \/ MainRecvFinish

\* main keeps running too
LiveSpec == FairSpec /\ WF_vars(Main)

\* the program from the start of the process, on any configuration
LogFormats == {"json", "logfmt", "", "xml"}
ProviderNames == {"cloudflare", "linode", "", "route53"}

InitStartup ==
    /\ koanf \in {Conf(load, version, format, dns, name, kube) :
                     load \in BOOLEAN, version \in BOOLEAN,
                     format \in LogFormats, dns \in {<<>>, <<TargetA>>},
                     name \in ProviderNames, kube \in BOOLEAN}
    /\ nodes = <<NodeC, NodeA, NodeB>>
    /\ zones = [z \in Zones |-> IF z = "z1" THEN <<Rec("h", "A", "10.0.0.3", 60)>>
                                 ELSE <<>>]
    /\ dnsConfig = <<>> /\ provider = NilProvider
    /\ cfgIdx = 1 /\ pc = "notstarted" /\ tick = 1
    /\ addresses = <<>> /\ records = <<>>
    /\ recordsToDelete = <<>> /\ recordsToCreate = <<>>
    /\ err = Nil /\ calls = <<>> /\ entryZones = zones
    /\ results = <<>> /\ prevResults = <<>>
    /\ ctxDone = FALSE /\ finishChan = 0 /\ termChan = 0 /\ mainPc = "start"
    /\ lateStarts = 0 /\ sigInWait = FALSE /\ lastCalls = <<>>

NextStartup == Startup \/ GetRecordsNilProvider \/ Next

SpecStartup == InitStartup /\ [][NextStartup]_vars

(***************************************************************************)
(* The reconciler on its own: syncHostnameIPs, called with any desired     *)
(* sequence on any zone of distinct records, and called again with the     *)
(* same arguments.                                                         *)
(***************************************************************************)
RecordUniverse ==
    {Rec("h", "A", "10.0.0.1", 60), Rec("h", "A", "10.0.0.2", 60),
     Rec("h", "A", "10.0.0.3", 300), Rec("g", "A", "10.0.0.1", 60),
     Rec("", "A", "10.0.0.1", 60),
     Rec("h", "AAAA", "0:0:0:0:0:0:0:1", 60), Rec("h", "A", "bad", 60),
     Rec("h", "TXT", "v=spf1", 60)}

SyncTargets ==
    {[Hostname |-> h, Zone |-> "z1", Labels |-> {}, TTL |-> 60] : h \in {"h", ""}}

\* the next tick calls syncHostnameIPs with the same target and addresses
SyncAgain ==
    /\ pc = "select"
    /\ Len(results) + 1 < MaxInvocations
    /\ results' = Append(results, err)
    /\ pc' = "get"
    /\ records' = <<>> /\ recordsToDelete' = <<>> /\ recordsToCreate' = <<>>
    /\ err' = Nil /\ calls' = <<Call("List", TRUE)>> /\ entryZones' = zones
    /\ UNCHANGED <<nodes, zones, dnsConfig, cfgIdx, addresses, tick, finishChan>>
    /\ UNCHANGED mainVars /\ UNCHANGED histVars

InitSync ==
    /\ nodes = <<>>
    /\ \E t \in SyncTargets : dnsConfig = <<t>>
    /\ \E k \in 0..MaxRecords : \E recs \in [1..k -> RecordUniverse] :
          /\ \A i, j \in 1..k : recs[i] = recs[j] => i = j
          /\ zones = [z \in Zones |-> IF z = "z1" THEN recs ELSE <<>>]
    /\ \E k \in 0..MaxDesired : addresses \in [1..k -> Addrs]
    /\ cfgIdx = 1 /\ pc = "get" /\ tick = 1
    /\ records = <<>> /\ recordsToDelete = <<>> /\ recordsToCreate = <<>>
    /\ err = Nil /\ calls = <<Call("List", TRUE)>> /\ entryZones = zones
    /\ results = <<>> /\ prevResults = <<>>
    /\ ctxDone = FALSE /\ finishChan = 0 /\ termChan = 0 /\ mainPc = "term"
    /\ lateStarts = 0 /\ sigInWait = FALSE /\ lastCalls = <<>>
    /\ koanf = StartedConf(dnsConfig) /\ provider = NewProvider(koanf.provider)

NextSync ==
    \/ GetRecordsOK \/ GetRecordsFail
    \/ DeleteRecordsOK \/ DeleteRecordsFail
    \/ CreateCandidates
    \/ SetRecordsOK \/ SetRecordsFail
    \/ SyncAgain

SpecSync == InitSync /\ [][NextSync]_vars

\* one call of syncHostnameIPs
NextReconcile ==
    \/ GetRecordsOK \/ GetRecordsFail
    \/ DeleteRecordsOK \/ DeleteRecordsFail
    \/ CreateCandidates
    \/ SetRecordsOK \/ SetRecordsFail

SpecReconcile == InitSync /\ [][NextReconcile]_vars

\* the tick after a syncHostnameIPs that returned an error: the loop has no
\* retry of its own, the next tick calls it with the same target and addresses
SyncRetry ==
    /\ pc = "select" /\ err # Nil
    /\ Len(results) + 1 < MaxInvocations
    /\ results' = Append(results, err)
    /\ lastCalls' = calls
    /\ pc' = "get"
    /\ records' = <<>> /\ recordsToDelete' = <<>> /\ recordsToCreate' = <<>>
    /\ err' = Nil /\ calls' = <<Call("List", TRUE)>> /\ entryZones' = zones
    /\ UNCHANGED <<nodes, zones, dnsConfig, cfgIdx, addresses, tick, finishChan,
                   prevResults, lateStarts, sigInWait>>
    /\ UNCHANGED mainVars

NextRetry ==
    \/ GetRecordsOK \/ GetRecordsFail
    \/ DeleteRecordsOK \/ DeleteRecordsFail
    \/ CreateCandidates
    \/ SetRecordsOK \/ SetRecordsFail
    \/ SyncRetry

SpecRetry == InitSync /\ [][NextRetry]_vars

(***************************************************************************)
(* The reconciler of the single-target program: syncHostnameIPs on string  *)
(* addresses, matching records by Type "A", and calling DeleteRecords and  *)
(* SetRecords whatever the length of the batch.                            *)
(***************************************************************************)
\* the delete pass of the single-target syncHostnameIPs
DeletePassSingle(recs, config, addrs) ==
    LET Stale(record) ==
            /\ record.name = config.Hostname /\ record.type = "A"
            /\ ~Contains(addrs, record.data)
    IN SelectSeq(recs, Stale)

\* the create pass of the single-target syncHostnameIPs
CreatePassSingle(recs, config, addrs) ==
    LET Missing(address) ==
            ~\E i \in 1..Len(recs) :
                /\ recs[i].name = config.Hostname /\ recs[i].type = "A"
                /\ recs[i].data = address
        missing == SelectSeq(addrs, Missing)
    IN [i \in 1..Len(missing) |-> Rec(config.Hostname, "A", missing[i], config.TTL)]

\* GetRecords succeeds, then the delete pass; DeleteRecords is called next
GetRecordsOKSingle ==
    /\ Alive /\ pc = "get"
    /\ records' = zones[Config.Zone]
    /\ recordsToDelete' = DeletePassSingle(records', Config, addresses)
    /\ calls' = Append(calls, Call("GetRecords", TRUE))
    /\ pc' = "delete"
    /\ UNCHANGED <<nodes, zones, dnsConfig, cfgIdx, addresses, recordsToCreate,
                   err, entryZones, results, tick, finishChan>>
    /\ UNCHANGED mainVars /\ UNCHANGED histVars

\* the create pass; SetRecords is called next
CreateCandidatesSingle ==
    /\ Alive /\ pc = "create"
    /\ recordsToCreate' = CreatePassSingle(records, Config, addresses)
    /\ pc' = "set"
    /\ UNCHANGED <<nodes, zones, dnsConfig, cfgIdx, addresses, records,
                   recordsToDelete, err, calls, entryZones, results, tick,
                   finishChan>>
    /\ UNCHANGED mainVars /\ UNCHANGED histVars

\* the strings a node reports as its ExternalIP addresses
AddressStrings == {"10.0.0.1", "10.0.0.2", "0:0:0:0:0:0:0:1", "bad"}

InitSingle ==
    /\ nodes = <<>>
    /\ dnsConfig = <<[Hostname |-> "h", Zone |-> "z1", Labels |-> {}, TTL |-> 60]>>
    /\ \E n \in 0..MaxRecords : \E recs \in [1..n -> RecordUniverse] :
          /\ \A i, j \in 1..n : recs[i] = recs[j] => i = j
          /\ zones = [z \in Zones |-> IF z = "z1" THEN recs ELSE <<>>]
    /\ \E n \in 0..MaxDesired : addresses \in [1..n -> AddressStrings]
    /\ cfgIdx = 1 /\ pc = "get" /\ tick = 1
    /\ records = <<>> /\ recordsToDelete = <<>> /\ recordsToCreate = <<>>
    /\ err = Nil /\ calls = <<Call("List", TRUE)>> /\ entryZones = zones
    /\ results = <<>> /\ prevResults = <<>>
    /\ ctxDone = FALSE /\ finishChan = 0 /\ termChan = 0 /\ mainPc = "term"
    /\ lateStarts = 0 /\ sigInWait = FALSE /\ lastCalls = <<>>
    /\ koanf = StartedConf(dnsConfig) /\ provider = NewProvider(koanf.provider)

NextSingle ==
    \/ GetRecordsOKSingle \/ GetRecordsFail
    \/ DeleteRecordsOK \/ DeleteRecordsFail
    \/ CreateCandidatesSingle
    \/ SetRecordsOK \/ SetRecordsFail
    \/ SyncAgain

SpecSingle == InitSingle /\ [][NextSingle]_vars

(***************************************************************************)
(* The collector on its own: getClusterExternalIPs on any node list        *)
(***************************************************************************)
ConditionLists ==
    {<<Cond("Ready", "False")>>, <<Cond("Ready", "Unknown")>>,
     <<Cond("MemoryPressure", "True")>>,
     <<Cond("MemoryPressure", "False"), Cond("Ready", "True")>>}

AddrEntries ==
    {NodeAddr("ExternalIP", "10.0.0.1"), NodeAddr("ExternalIP", "0:0:0:0:0:0:0:1"),
     NodeAddr("ExternalIP", "bad"), NodeAddr("InternalIP", "10.0.0.2")}

RECURSIVE SumSeq(_)
SumSeq(ns) == IF ns = <<>> THEN 0 ELSE Head(ns) + SumSeq(Tail(ns))

\* the node lists of k nodes whose address lists have the lengths lens
NodeLists(k, lens) ==
    {[i \in 1..k |->
         Node({}, conds[i],
              SubSeq(flat, SumSeq(SubSeq(lens, 1, i - 1)) + 1,
                           SumSeq(SubSeq(lens, 1, i))))] :
        conds \in [1..k -> ConditionLists],
        flat \in [1..SumSeq(lens) -> AddrEntries]}

InitCollect ==
    /\ \E k \in 0..MaxNodes : \E lens \in [1..k -> 0..MaxNodeAddrs] :
          /\ SumSeq(lens) <= MaxNodeAddrs
          /\ nodes \in NodeLists(k, lens)
    /\ dnsConfig = <<[Hostname |-> "h", Zone |-> "z1", Labels |-> {}, TTL |-> 60]>>
    /\ zones = [z \in Zones |-> <<>>]
    /\ cfgIdx = 1 /\ pc = "list" /\ tick = 1
    /\ addresses = <<>> /\ records = <<>>
    /\ recordsToDelete = <<>> /\ recordsToCreate = <<>>
    /\ err = Nil /\ calls = <<>> /\ entryZones = zones
    /\ results = <<>> /\ prevResults = <<>>
    /\ ctxDone = FALSE /\ finishChan = 0 /\ termChan = 0 /\ mainPc = "term"
    /\ lateStarts = 0 /\ sigInWait = FALSE /\ lastCalls = <<>>
    /\ koanf = StartedConf(dnsConfig) /\ provider = NewProvider(koanf.provider)

NextCollect == ListNodesOK \/ ListNodesFail

SpecCollect == InitCollect /\ [][NextCollect]_vars

(***************************************************************************)
(* Properties of the reconciler (checked under SpecSync)                   *)
(***************************************************************************)
\* the records of a list that parse as address records of the hostname
HostAddressRecords(recs, hostname) ==
    LET Mine(r) == /\ parseAddress(r).err = NoErr
                   /\ parseAddress(r).address.Name = hostname
    IN SelectSeq(recs, Mine)

IPOf(r) == parseAddress(r).address.IP

\* syncHostnameIPs has returned nil
SyncSucceeded == pc = "select" /\ err = Nil

\* the delete pass of the current call has been computed
DeletePassDone ==
    /\ Len(calls) >= 2 /\ calls[2] = Call("GetRecords", TRUE)
    /\ pc \in {"delete", "create", "set", "select"}

\* the create pass of the current call has been computed
CreatePassDone ==
    /\ DeletePassDone
    /\ \/ pc = "set"
       \/ pc = "select" /\ calls[Len(calls)] # Call("DeleteRecords", FALSE)

\* C1: after syncHostnameIPs returns nil, the address records of the target
\* hostname at the provider are exactly the desired addresses: each desired
\* address has a record, no record has another address, and no
\* (hostname, address) pair is present twice.
C1_ExactRecordsAfterSync ==
    SyncSucceeded =>
        LET host == HostAddressRecords(zones[Config.Zone], Config.Hostname) IN
        /\ {IPOf(host[i]) : i \in 1..Len(host)} = Range(addresses)
        /\ \A i, j \in 1..Len(host) : IPOf(host[i]) = IPOf(host[j]) => i = j

\* the previous call of syncHostnameIPs returned nil
AfterSuccess == Len(results) >= 1 /\ results[Len(results)] = Nil

\* C2: a reconcile that follows a successful one with the same target and
\* desired sequence computes no delete candidate and no create candidate, and
\* issues no write: the provider's records stay as they were.
C2_Idempotent ==
    AfterSuccess =>
        /\ recordsToDelete = <<>> /\ recordsToCreate = <<>>
        /\ pc \notin {"delete", "set"}
        /\ zones = entryZones

\* the second reconcile completed after a first one that created records
C2_Witness ==
    /\ AfterSuccess /\ SyncSucceeded /\ CreatePassDone
    /\ Len(zones[Config.Zone]) > MaxRecords
    /\ \E i, j \in 1..Len(addresses) : i # j /\ addresses[i] = addresses[j]

\* C3: a fetched record that is not an address record is never put in the
\* list passed to DeleteRecords nor in the list passed to SetRecords.
C3_NonAddressRecordsUntouched ==
    \A r \in Range(recordsToDelete) \cup Range(recordsToCreate) :
        parseAddress(r).err # ErrNotAddressRecord

\* C4: the delete candidates are exactly the fetched address records of the
\* hostname whose address is not desired; the create candidates are exactly
\* the desired addresses no fetched address record of the hostname has, each
\* built with the hostname, the address and the target's TTL.
C4_DiffExact ==
    LET host == HostAddressRecords(records, Config.Hostname)
        Undesired(r) == IPOf(r) \notin Range(addresses)
        held == {IPOf(host[i]) : i \in 1..Len(host)}
    IN /\ DeletePassDone => recordsToDelete = SelectSeq(host, Undesired)
       /\ CreatePassDone =>
             Range(recordsToCreate) =
                 {NewAddressRecord(Config, a) : a \in Range(addresses) \ held}

(***************************************************************************)
(* Properties of watchNodes and the scheduling loop (checked under Spec    *)
(* and FairSpec)                                                           *)
(***************************************************************************)
DeleteErr ==
    Wrap("failed to sync hostname IPs",
         Wrap("failed to delete records", <<"DeleteRecords">>))

ListErr ==
    Wrap("failed to get cluster external IPs",
         Wrap("failed to list nodes", <<"List">>))

DeleteFailed == Call("DeleteRecords", FALSE) \in Range(calls)
ListFailed == Call("List", FALSE) \in Range(calls)

\* C5: when DeleteRecords fails, SetRecords is not called for that target in
\* that tick and syncHostnameIPs returns the wrapped delete error; the failure
\* does not stop the loop: unless cancellation was signalled, the goroutine
\* goes on to the next target of the tick.
C5_DeleteFailureAborts ==
    /\ [](DeleteFailed =>
            /\ \A i \in 1..Len(calls) : calls[i].op # "SetRecords"
            /\ pc \notin {"create", "set"}
            /\ recordsToCreate = <<>>
            /\ err = DeleteErr)
    /\ [][(DeleteFailed /\ pc = "select" /\ ~ctxDone /\ pc' # pc) =>
             (pc' = "range" /\ cfgIdx' = cfgIdx + 1)]_vars

\* the second target is being processed after the first one's delete failed
C5_Witness ==
    /\ pc = "get" /\ cfgIdx = 2
    /\ results = <<DeleteErr>>

\* watchNodes returned an error for target i in the last tick
FailedLastTick(i) == i <= Len(prevResults) /\ prevResults[i] # Nil

\* C6: an error returned by watchNodes never ends the loop nor skips the
\* later targets of the tick: the goroutine exits only after cancellation, and
\* after a failed target it moves to the next one; absent cancellation a
\* failed target is attempted again in the next tick.
C6_ErrorIsolation ==
    /\ [][(pc = "select" /\ err # Nil /\ ~ctxDone /\ pc' # pc) =>
             (pc' = "range" /\ cfgIdx' = cfgIdx + 1)]_vars
    /\ [][(pc' = "exited" /\ pc # "exited") => ctxDone]_vars
    /\ \A i \in 1..2 :
          (pc = "select" /\ err # Nil /\ cfgIdx = i /\ i < Len(dnsConfig))
              ~> (ctxDone \/ (pc = "list" /\ cfgIdx = i + 1))
    /\ \A i \in 1..2 :
          (pc = "select" /\ err # Nil /\ cfgIdx = i /\ tick < MaxTicks)
              ~> (ctxDone \/ (pc = "list" /\ cfgIdx = i /\ FailedLastTick(i)))

\* the first target failed in the last tick, the second one was still
\* processed, and the first one is being attempted again
C6_Witness ==
    /\ tick = 2 /\ pc = "list" /\ cfgIdx = 1 /\ ~ctxDone
    /\ Len(prevResults) = 2 /\ FailedLastTick(1)

\* C9: when the node listing fails, getClusterExternalIPs returns a wrapped
\* error and no addresses, and watchNodes returns without calling the
\* reconciler: no GetRecords, DeleteRecords or SetRecords call is made for the
\* target and the provider's records are unchanged.
C9_ListFailureFailsClosed ==
    ListFailed =>
        /\ calls = <<Call("List", FALSE)>>
        /\ addresses = <<>>
        /\ err = ListErr
        /\ pc \notin {"get", "delete", "create", "set"}
        /\ zones = entryZones

\* the listing failed for a target whose hostname has records at the provider
C9_Witness ==
    /\ ListFailed /\ pc = "select"
    /\ HostAddressRecords(zones[Config.Zone], Config.Hostname) # <<>>

\* C10: finishChan is closed at most once, only after cancel(), by a goroutine
\* that is between two watchNodes calls and makes no further call; main
\* returns only after finishChan is closed.
C10_ShutdownHandshake ==
    /\ [](/\ finishChan <= 1
          /\ finishChan >= 1 => (ctxDone /\ pc = "exited")
          /\ mainPc = "returned" => finishChan = 1)
    /\ [][finishChan' # finishChan =>
             /\ finishChan = 0 /\ finishChan' = 1
             /\ ctxDone
             /\ pc \in {"select", "wait"} /\ pc' = "exited"]_vars

\* main has returned after a shutdown requested in the middle of a tick
C10_Witness ==
    /\ mainPc = "returned" /\ finishChan = 1
    /\ cfgIdx = 1 /\ Len(dnsConfig) = 2
    /\ Call("SetRecords", TRUE) \in Range(calls)

(***************************************************************************)
(* Properties of the collector (checked under SpecCollect)                 *)
(***************************************************************************)
\* the node listing of the current watchNodes succeeded
ListedOK == Len(calls) >= 1 /\ calls[1] = Call("List", TRUE)

\* the node reports a Ready condition of status True
HasTrueReadiness(node) == Cond("Ready", "True") \in Range(node.conditions)

\* the (node, entry) positions of the ExternalIP entries of ready nodes
ReadyExternalEntries(items) ==
    UNION {{<<n, k>> : k \in {j \in 1..Len(items[n].addrs) :
                                /\ HasTrueReadiness(items[n])
                                /\ items[n].addrs[j].Type = "ExternalIP"}} :
           n \in 1..Len(items)}

\* C7: every address getClusterExternalIPs returns comes from an ExternalIP
\* entry of a node with a Ready condition of status True; a node without one
\* contributes no address, whatever external IPs it reports.
C7_ReadinessFilter ==
    ListedOK =>
        LET items == ListNodes(Config.Labels) IN
        /\ \A a \in Range(addresses) :
              \E e \in ReadyExternalEntries(items) :
                  ParseAddr(items[e[1]].addrs[e[2]].Address) = [ok |-> TRUE, addr |-> a]
        /\ Len(addresses) <= Cardinality(ReadyExternalEntries(items))

\* addresses were collected while a node that is not ready reports a valid
\* external IP
C7_Witness ==
    /\ ListedOK /\ addresses # <<>>
    /\ \E n \in 1..Len(nodes) :
          /\ ~HasTrueReadiness(nodes[n])
          /\ \E k \in 1..Len(nodes[n].addrs) :
                /\ nodes[n].addrs[k].Type = "ExternalIP"
                /\ ParseAddr(nodes[n].addrs[k].Address).ok

RECURSIVE ParseableExternalIPs(_)
ParseableExternalIPs(entries) ==
    IF entries = <<>> THEN <<>>
    ELSE LET e == Head(entries) IN
         (IF e.Type = "ExternalIP" /\ ParseAddr(e.Address).ok
          THEN <<ParseAddr(e.Address).addr>> ELSE <<>>)
         \o ParseableExternalIPs(Tail(entries))

RECURSIVE ReadyNodesIPs(_)
ReadyNodesIPs(items) ==
    IF items = <<>> THEN <<>>
    ELSE (IF HasTrueReadiness(Head(items))
          THEN ParseableExternalIPs(Head(items).addrs) ELSE <<>>)
         \o ReadyNodesIPs(Tail(items))

\* C8: when the node listing succeeds, getClusterExternalIPs returns no error
\* however many external IPs fail to parse, and returns exactly the parseable
\* external IPs of the ready nodes, in node and address order, duplicates
\* kept: an unparsable string removes that one address only.
C8_MalformedAddressTolerance ==
    ListedOK =>
        /\ err = Nil /\ pc = "get"
        /\ addresses = ReadyNodesIPs(ListNodes(Config.Labels))

\* an unparsable external IP precedes a valid one on a ready node, and the
\* result keeps an address two nodes share
C8_Witness ==
    /\ ListedOK /\ pc = "get"
    /\ \E n \in 1..Len(nodes) :
          /\ HasTrueReadiness(nodes[n])
          /\ Len(nodes[n].addrs) = 2
          /\ nodes[n].addrs[1].Type = "ExternalIP"
          /\ ~ParseAddr(nodes[n].addrs[1].Address).ok
          /\ nodes[n].addrs[2].Type = "ExternalIP"
          /\ ParseAddr(nodes[n].addrs[2].Address).ok
    /\ \E i, j \in 1..Len(addresses) : i # j /\ addresses[i] = addresses[j]

(***************************************************************************)
(* Shutdown and cancellation (checked under LiveSpec and Spec)             *)
(***************************************************************************)
\* the interrupt signal has been delivered to the process
Signalled == termChan > 0 \/ mainPc # "term"

\* the goroutine has closed finishChan and main has returned
Terminated == finishChan = 1 /\ pc = "exited" /\ mainPc = "returned"

\* C11 as stated: after the interrupt signal is delivered the goroutine closes
\* finishChan and the process terminates, and a signal that arrives during the
\* inter-tick wait makes the loop exit from that wait without another tick.
C11_ExitsFromWait ==
    /\ Signalled ~> Terminated
    /\ [][(sigInWait /\ pc = "wait" /\ pc' # pc) => pc' = "exited"]_vars

\* C11: after the interrupt signal is delivered the goroutine closes
\* finishChan and the process terminates; once cancel() has been called a
\* goroutine in the inter-tick wait can leave through the cancellation case
\* at once, and if the timer case is taken instead the loop exits at the
\* select after the first watchNodes call of that tick.
C11_ShutdownLiveness ==
    /\ Signalled ~> Terminated
    /\ [](Alive /\ ctxDone /\ pc = "wait" => ENABLED WaitDone)
    /\ [](lateStarts >= 1 => pc \notin {"range", "wait"})

\* the signal came during the inter-tick wait, the timer fired before the
\* cancellation was seen, and the process terminated after one more call
C11_Witness ==
    /\ Terminated
    /\ tick = 2 /\ cfgIdx = 1 /\ lateStarts = 1

(***************************************************************************)
(* Startup validation (checked under SpecStartup)                          *)
(***************************************************************************)
\* the configuration loads, names a known log format and a known provider,
\* lists a target, and the cluster client can be built
ValidConf(conf) ==
    /\ conf.loadOK /\ conf.kubeOK
    /\ conf.logFormat \in {"json", "logfmt", ""}
    /\ conf.provider \in {"cloudflare", "digitalocean", "linode"}
    /\ Len(conf.dns) > 0

\* C12: with an invalid configuration (an unrecognised log format, an
\* unrecognised or empty provider name, an empty target list) the goroutine
\* is never started and no target is processed: once main is past its
\* startup the process has exited with a non-zero status.
C12_StartupValidation ==
    (~koanf.version /\ ~ValidConf(koanf)) =>
        /\ pc = "notstarted" /\ calls = <<>>
        /\ mainPc \in {"start", "exit1"}

(***************************************************************************)
(* The candidate lists and the provider calls of one reconcile (checked    *)
(* under SpecSync and SpecReconcile)                                       *)
(***************************************************************************)
\* the positions of the create candidates that carry the address
CreatedAt(address) ==
    {i \in 1..Len(recordsToCreate) : IPOf(recordsToCreate[i]) = address}

\* the positions at which the desired sequence holds the address
DesiredAt(address) == {i \in 1..Len(addresses) : addresses[i] = address}

\* no fetched record is an address record of the hostname with the address
NoRecordOf(address) ==
    \A r \in Range(HostAddressRecords(records, Config.Hostname)) : IPOf(r) # address

\* C13: when the desired sequence holds the same address more than once and
\* no fetched record has that (hostname, address) pair, the create candidates
\* passed to SetRecords hold that address exactly once.
C13_ImplicitDeduplication ==
    CreatePassDone =>
        \A a \in Range(addresses) :
            (Cardinality(DesiredAt(a)) > 1 /\ NoRecordOf(a)) =>
                Cardinality(CreatedAt(a)) = 1

\* the positions of the calls of an operation made by the current reconcile
CallsOf(op) == {i \in 1..Len(calls) : calls[i].op = op}

\* C14: one reconcile calls GetRecords exactly once and before any write,
\* DeleteRecords at most once, SetRecords at most once and never before the
\* DeleteRecords of the same pass; GetRecords is not called again between
\* the delete and the create, so both passes work on the snapshot fetched at
\* the start.
C14_CallOrdering ==
    /\ Cardinality(CallsOf("GetRecords")) <= 1
    /\ Cardinality(CallsOf("DeleteRecords")) <= 1
    /\ Cardinality(CallsOf("SetRecords")) <= 1
    /\ \A i \in CallsOf("DeleteRecords") \cup CallsOf("SetRecords") :
          \E j \in CallsOf("GetRecords") : j < i /\ calls[j].ok
    /\ \A i \in CallsOf("SetRecords") :
          \A j \in CallsOf("DeleteRecords") : j < i /\ calls[j].ok
    /\ SyncSucceeded => Cardinality(CallsOf("GetRecords")) = 1
    /\ DeletePassDone => records = entryZones[Config.Zone]
    /\ CreatePassDone =>
          \A a \in Range(addresses) :
              CreatedAt(a) # {} <=>
                  \A r \in Range(HostAddressRecords(entryZones[Config.Zone],
                                                    Config.Hostname)) :
                      IPOf(r) # a

\* a reconcile that fetched, deleted and created, in this order
C14_Witness ==
    /\ SyncSucceeded
    /\ calls = <<Call("List", TRUE), Call("GetRecords", TRUE),
                 Call("DeleteRecords", TRUE), Call("SetRecords", TRUE)>>
    /\ zones # entryZones

\* the current reconcile is past the place of its DeleteRecords call
PastDelete ==
    /\ Len(calls) >= 2 /\ calls[2] = Call("GetRecords", TRUE)
    /\ pc \in {"create", "set", "select"}

\* the current reconcile is past the place of its SetRecords call
PastSet ==
    /\ PastDelete /\ pc = "select"
    /\ \A i \in CallsOf("DeleteRecords") : calls[i].ok

\* C15: DeleteRecords is called if and only if the delete candidates are not
\* empty, SetRecords if and only if the create candidates are not empty, and
\* a reconcile with nothing to change calls GetRecords only.
C15_WritesOnlyForNonEmptyBatches ==
    /\ PastDelete => (CallsOf("DeleteRecords") # {} <=> recordsToDelete # <<>>)
    /\ PastSet => (CallsOf("SetRecords") # {} <=> recordsToCreate # <<>>)
    /\ (PastSet /\ recordsToDelete = <<>> /\ recordsToCreate = <<>>) =>
          calls = <<Call("List", TRUE), Call("GetRecords", TRUE)>>

\* C16: a reconcile of target t passes to DeleteRecords only records named
\* t.hostname and to SetRecords only records named t.hostname, calls the
\* provider for t.zone only, and leaves unchanged the records of any other
\* name and all records of any other zone.
C16_NameAndZoneFrame ==
    /\ DeletePassDone =>
          \A r \in Range(recordsToDelete) : r.name = Config.Hostname
    /\ CreatePassDone =>
          \A r \in Range(recordsToCreate) : r.name = Config.Hostname
    /\ \A z \in Zones \ {Config.Zone} : zones[z] = entryZones[z]
    /\ LET Other(r) == r.name # Config.Hostname
       IN SelectSeq(zones[Config.Zone], Other)
              = SelectSeq(entryZones[Config.Zone], Other)

\* parseAddress fails on the record for another reason than its type
Unparsable(r) == parseAddress(r).err \notin {NoErr, ErrNotAddressRecord}

\* the records of a list without those on which parseAddress fails
WithoutUnparsable(recs) ==
    LET Good(r) == ~Unparsable(r) IN SelectSeq(recs, Good)

\* C17: a fetched record whose parse fails for another reason than 'not an
\* address record' is never a delete candidate and stays at the provider, and
\* both candidate lists are those the other records alone give; the passes
\* are not aborted: when every provider call succeeds the reconcile returns
\* nil.
C17_ParseErrorsAreLocal ==
    /\ DeletePassDone =>
          /\ \A r \in Range(recordsToDelete) : ~Unparsable(r)
          /\ recordsToDelete
                 = DeletePass(WithoutUnparsable(records), Config, addresses)
          /\ \A r \in Range(records) :
                 Unparsable(r) => r \in Range(zones[Config.Zone])
    /\ CreatePassDone =>
          recordsToCreate
              = CreatePass(WithoutUnparsable(records), Config, addresses)
    /\ (pc = "select" /\ \A i \in 1..Len(calls) : calls[i].ok) =>
          /\ err = Nil
          /\ CreatePassDone

\* a reconcile over a zone with an unparsable record and a stale one has
\* deleted, created and returned nil, and the unparsable record is in place
C17_Witness ==
    /\ SyncSucceeded
    /\ \E r \in Range(records) : Unparsable(r) /\ r \in Range(zones[Config.Zone])
    /\ Call("DeleteRecords", TRUE) \in Range(calls)
    /\ Call("SetRecords", TRUE) \in Range(calls)

(***************************************************************************)
(* Cancellation points of the scheduling loop (checked under Spec)         *)
(***************************************************************************)
\* C18: cancellation is checked after each target and during the inter-tick
\* wait; once cancel() has been called at most one further watchNodes call
\* is started, the select after a call returns instead of going on to the
\* next target, and after a call started late no target of this tick or of
\* a later tick is processed: the goroutine exits.
C18_CancellationPoints ==
    /\ [](lateStarts <= 1)
    /\ [](Alive /\ ctxDone /\ pc \in {"select", "wait"} =>
              ENABLED (TargetSelectDone \/ WaitDone))
    /\ [][(ctxDone /\ pc = "select" /\ pc' # pc) => pc' = "exited"]_vars
    /\ [][(lateStarts = 1 /\ pc' # pc) =>
              pc' \in {"list", "get", "delete", "create", "set", "select",
                       "exited"}]_vars

\* cancel() came after the check that follows the first of two targets; the
\* second target was processed and the goroutine exited at its select
C18_Witness ==
    /\ pc = "exited" /\ lateStarts = 1
    /\ Len(dnsConfig) = 2 /\ cfgIdx = 2 /\ tick = 1
    /\ Len(results) = 2

(***************************************************************************)
(* Steady state of the loop (checked under Spec)                           *)
(***************************************************************************)
\* every watchNodes call of the last tick returned nil, and so did those of
\* this tick so far, the call in progress having had no failure
AllSucceeded ==
    /\ Len(prevResults) = Len(dnsConfig)
    /\ \A i \in 1..Len(prevResults) : prevResults[i] = Nil
    /\ \A i \in 1..Len(results) : results[i] = Nil
    /\ \A i \in 1..Len(calls) : calls[i].ok

\* the desired addresses of a target on the cluster as it is
DesiredOf(target) == Range(ExternalIPs(ListNodes(target.Labels)))

\* the addresses of the address records of a target's hostname in its zone
RecordedOf(target) ==
    {IPOf(r) : r \in Range(HostAddressRecords(zones[target.Zone], target.Hostname))}

\* C19: for every list of targets, two targets of one hostname and zone with
\* different selectors included, when the nodes stay as they are and every
\* call succeeds, no tick after the first complete one calls DeleteRecords or
\* SetRecords, and at the end of every later tick the address records of
\* each target are its desired set.
C19_NoFlapping ==
    (tick >= 2 /\ pc # "range" /\ AllSucceeded) =>
        /\ CallsOf("DeleteRecords") = {} /\ CallsOf("SetRecords") = {}
        /\ pc = "wait" => \A i \in 1..Len(dnsConfig) :
                              RecordedOf(dnsConfig[i]) = DesiredOf(dnsConfig[i])

(***************************************************************************)
(* An empty desired sequence (checked under Spec)                          *)
(***************************************************************************)
\* the node listing of the current watchNodes gave no address
ListedNothing == ListedOK /\ addresses = <<>>

\* C20: when the node listing succeeds and yields no address the reconcile
\* still runs: every fetched address record of the target's hostname is in
\* the delete batch, nothing is created, and on success the hostname has
\* no address record.
C20_EmptyDesiredWipes ==
    (ListedNothing /\ pc \in {"get", "delete", "create", "set", "select"}) =>
        /\ DeletePassDone =>
              Range(HostAddressRecords(records, Config.Hostname))
                  \subseteq Range(recordsToDelete)
        /\ recordsToCreate = <<>> /\ CallsOf("SetRecords") = {}
        /\ SyncSucceeded =>
              /\ Call("GetRecords", TRUE) \in Range(calls)
              /\ HostAddressRecords(zones[Config.Zone], Config.Hostname) = <<>>

\* no node of the target is ready, its hostname had an address record, and
\* the reconcile has deleted it
C20_Witness ==
    /\ ListedNothing /\ SyncSucceeded
    /\ HostAddressRecords(entryZones[Config.Zone], Config.Hostname) # <<>>
    /\ Call("DeleteRecords", TRUE) \in Range(calls)
    /\ HostAddressRecords(zones[Config.Zone], Config.Hostname) = <<>>

(***************************************************************************)
(* A failed SetRecords after a successful DeleteRecords, and the retry     *)
(* (checked under SpecRetry)                                               *)
(***************************************************************************)
SetErr ==
    Wrap("failed to sync hostname IPs",
         Wrap("failed to create records", <<"SetRecords">>))

\* the calls of a syncHostnameIPs whose DeleteRecords succeeded and whose
\* SetRecords failed
DeletedThenSetFailed(cs) ==
    /\ Call("DeleteRecords", TRUE) \in Range(cs)
    /\ cs # <<>> /\ cs[Len(cs)] = Call("SetRecords", FALSE)

\* the fetched address records of the hostname whose address is desired
KeptOf(recs) ==
    LET Desired(r) == IPOf(r) \in Range(addresses)
    IN SelectSeq(HostAddressRecords(recs, Config.Hostname), Desired)

\* the retry follows a call that deleted and then failed to create
RetryAfterSetFailure ==
    /\ Len(results) = 1 /\ results[1] = SetErr
    /\ DeletedThenSetFailed(lastCalls)

\* C21: when DeleteRecords succeeds and SetRecords then fails, the call
\* returns the wrapped error, the deletions stay, and the hostname is left
\* with the fetched address records whose address is desired; the next call
\* with the same arguments, when its calls succeed, issues no delete,
\* creates the desired addresses that have no record, and ends with the
\* address records of the hostname being the desired addresses, each once.
C21_SetFailureThenRetry ==
    /\ (pc = "select" /\ DeletedThenSetFailed(calls)) =>
          /\ err = SetErr
          /\ zones[Config.Zone] =
                 ProviderDelete(entryZones[Config.Zone], recordsToDelete)
          /\ HostAddressRecords(zones[Config.Zone], Config.Hostname)
                 = KeptOf(records)
    /\ RetryAfterSetFailure =>
          /\ recordsToDelete = <<>> /\ CallsOf("DeleteRecords") = {}
          /\ CreatePassDone =>
                Range(recordsToCreate) =
                    {NewAddressRecord(Config, a) :
                        a \in Range(addresses) \
                              {IPOf(r) : r \in Range(KeptOf(records))}}
          /\ SyncSucceeded =>
                LET host == HostAddressRecords(zones[Config.Zone], Config.Hostname)
                IN /\ {IPOf(host[i]) : i \in 1..Len(host)} = Range(addresses)
                   /\ \A i, j \in 1..Len(host) :
                          IPOf(host[i]) = IPOf(host[j]) => i = j

(***************************************************************************)
(* The TTL of records (checked under SpecReconcile)                        *)
(***************************************************************************)
\* C22: a fetched address record of the hostname whose address is desired
\* is no delete candidate, no create candidate has its address, and it
\* stays at the provider as it is, TTL included, whether or not that TTL is
\* the target's; every create candidate, and every record the provider
\* holds that it did not hold before the call, has the target's TTL.
C22_TTLOnlyAtCreation ==
    /\ \A r \in Range(KeptOf(records)) :
          /\ r \notin Range(recordsToDelete)
          /\ \A c \in Range(recordsToCreate) : IPOf(c) # IPOf(r)
          /\ r \in Range(zones[Config.Zone])
    /\ \A c \in Range(recordsToCreate) : c.ttl = Config.TTL
    /\ \A r \in Range(zones[Config.Zone]) \ Range(entryZones[Config.Zone]) :
          r \in Range(recordsToCreate) /\ r.ttl = Config.TTL

\* a desired address whose record has another TTL than the target's is kept
\* with that TTL, next to a deletion and a creation with the target's TTL
C22_Witness ==
    /\ SyncSucceeded
    /\ Call("DeleteRecords", TRUE) \in Range(calls)
    /\ Call("SetRecords", TRUE) \in Range(calls)
    /\ \E r \in Range(KeptOf(records)) :
          r.ttl # Config.TTL /\ r \in Range(zones[Config.Zone])
    /\ \E r \in Range(zones[Config.Zone]) \ Range(entryZones[Config.Zone]) :
          r.ttl = Config.TTL

====
